---------------------------- MODULE Spec2Model ----------------------------
(***************************************************************************)
(* Model of gdelt_realtime_downloader.py: the poll loop of run(), the      *)
(* pointer resolver poll_once(), the atomic download download_zip(), the   *)
(* extraction extract_zip() and the scheduler's backoff.                    *)
(*                                                                         *)
(* One process, one thread.  pc is the position of the process in run():   *)
(*   "poll"            about to call poll_once for stream kind (l.119)     *)
(*   "download"        in download_zip before the GET returns (l.60-61)    *)
(*   "write"           in download_zip, streaming chunks to tmp (l.62-65), *)
(*                     or about to rename tmp to dest (l.66)               *)
(*   "extract"         about to extract (l.144-150)                        *)
(*   "mark"            about to run seen.add(name) (l.152)                 *)
(*   "sleep"           in time.sleep(args.interval) (l.154)                *)
(*   "backoff_sleep"   in time.sleep(backoff) of the retryable handler     *)
(*                     (l.157-158)                                         *)
(*   "tolerated_sleep" in time.sleep(backoff) of the catch-all (l.167)     *)
(*   "exited"          the process has terminated                          *)
(***************************************************************************)
EXTENDS Integers, Sequences, FiniteSets, TLC

\* --------------------------------------------------------------------------
\* Bounds and program constants
\* --------------------------------------------------------------------------

\* Number of 1 MiB chunks of an archive's response body.
BodyChunks == 2

DEFAULT_INTERVAL == 120

\* The literal cap of line 159.
BackoffCap == 1800

\* Values of --interval: one below the cap (ten minutes) and one above it
\* (two hours).
Intervals == {5 * DEFAULT_INTERVAL, 4 * BackoffCap}

\* Exit statuses: sys.exit(0), sys.exit(1), and the interpreter's status for
\* a KeyboardInterrupt nobody catches (1 before Python 3.8; 130, that is
\* 128 + SIGINT, as the shell reports it from 3.8 on).
ExitOk == 0
ExitFatal == 1
UncaughtInterruptStatuses == {1, 130}
Running == -1

\* --------------------------------------------------------------------------
\* Streams (the tuple of the for loop, l.113-116, with get_args' defaults)
\* --------------------------------------------------------------------------

ENG_URL == "http://data.gdeltproject.org/gdeltv2/lastupdate.txt"
TRANS_URL == "http://data.gdeltproject.org/gdeltv2/lastupdate-translation.txt"

Streams ==
  << [kind |-> "ENG", url |-> ENG_URL,
      raw_subdir |-> "rawdata_en", csv_subdir |-> "csv_en"],
     [kind |-> "TRANS", url |-> TRANS_URL,
      raw_subdir |-> "rawdata_tr", csv_subdir |-> "csv_tr"] >>

Kinds == {Streams[i].kind : i \in 1..Len(Streams)}

\* --------------------------------------------------------------------------
\* File names, URLs and pointer bodies
\* --------------------------------------------------------------------------
\* A file name is its first four characters, the rest of its stem, and its
\* suffixes; a token of a pointer line is the text up to its last "/" and the
\* text after it (the whole token when it has no "/").

\* The suffixes of a name, in order: ".gkg.csv.zip" is <<"gkg", "csv", "zip">>.
GkgSuffix == << "gkg", "csv", "zip" >>

FileName(y, r, e) == [year |-> y, rest |-> r, ext |-> e]

Token(d, f) == [dir |-> d, file |-> f]

GdeltDir == "http://data.gdeltproject.org/gdeltv2"

\* 20250724144500.gkg.csv.zip, 20260101000000.gkg.csv.zip and
\* 20250724144500.translation.gkg.csv.zip
NameA == FileName("2025", "0724144500", GkgSuffix)
NameB == FileName("2026", "0101000000", GkgSuffix)
NameT == FileName("2025", "0724144500", << "translation" >> \o GkgSuffix)

\* The archive names each endpoint publishes.
Published(url) == IF url = ENG_URL THEN {NameA, NameB} ELSE {NameT}

Names == Published(ENG_URL) \cup Published(TRANS_URL)

SizeTok == Token("", FileName("1503", "83", << >>))
HashTok == Token("", FileName("abcd", "1234", << >>))

ExportLine(n) ==
  << SizeTok, HashTok,
     Token(GdeltDir, FileName(n.year, n.rest, << "export", "CSV", "zip" >>)) >>

GkgLine(n) == << SizeTok, HashTok, Token(GdeltDir, n) >>

\* The 2xx bodies an endpoint may answer with, as sequences of lines, a line a
\* sequence of tokens and a blank line the empty sequence: the export line
\* and the gkg line of a published name, the same after a blank line and
\* with the bare URL, an export line alone, and the empty body.
PointerBodies(url) ==
  { << ExportLine(n), GkgLine(n) >> : n \in Published(url) }
    \cup { << << >>, << Token(GdeltDir, n) >>, GkgLine(NameB) >> : n \in Published(url) }
    \cup { << ExportLine(NameA) >>, << >> }

NoName == FileName("", "", << >>)

\* None, as poll_once returns it.
NoLink == Token("", NoName)

\* str.endswith(".gkg.csv.zip") on a stripped line: its last token ends so.
EndsWithGkg(line) ==
  LET ext == line[Len(line)].file.ext
  IN  Len(ext) >= 3 /\ SubSeq(ext, Len(ext) - 2, Len(ext)) = GkgSuffix

RECURSIVE FirstMatch(_)
FirstMatch(lines) ==
  IF lines = << >> THEN NoLink
  ELSE IF EndsWithGkg(Head(lines)) THEN Head(lines)[Len(Head(lines))]
  ELSE FirstMatch(Tail(lines))

\* poll_once on a 2xx response with the given body: the last token of the
\* first non-blank line ending in .gkg.csv.zip, NoLink (None) otherwise.
poll_once(body) == FirstMatch(SelectSeq(body, LAMBDA ln : ln # << >>))

safe_filename(url) == url.file

extract_year(ts_filename) == ts_filename.year


\* --------------------------------------------------------------------------
\* Paths and files
\* --------------------------------------------------------------------------

\* zip_path of l.131: output / year / raw_subdir / name.
ZipPath(stream, n) == [year |-> extract_year(n), subdir |-> stream.raw_subdir, file |-> n]

\* Path.with_suffix(".part"): the last suffix replaced (appended when the
\* name has none).
with_suffix(ext, suffix) ==
  IF ext = << >> THEN << suffix >> ELSE SubSeq(ext, 1, Len(ext) - 1) \o << suffix >>

\* Fault: the body is streamed straight to dest, no temporary file.
PartPathInPlace(dest) == dest

\* tmp of l.59.
PartPath(dest) == [dest EXCEPT !.file.ext = with_suffix(@, "part")]

AllPaths ==
  UNION { {ZipPath(Streams[i], n), PartPath(ZipPath(Streams[i], n))} :
            i \in 1..Len(Streams), n \in Names }

\* A file is the number of chunks written to it and whether the body they
\* come from is a well-formed zip archive; NoFile is the absent file.
NoFile == [written |-> -1, valid |-> FALSE]

Files == {NoFile} \cup [written : 0..BodyChunks, valid : BOOLEAN]

\* Fault: the existence check never finds the archive.
ExistsNever(disk, path) == FALSE

\* Path.exists().
Exists(disk, path) == disk[path] # NoFile

Complete(file) == file.written = BodyChunks

\* zipfile.ZipFile(path) opens without BadZipFile: the whole of a well-formed
\* archive is there.
IsZip(file) == Complete(file) /\ file.valid

\* Path.rename: the source replaces the destination; onto itself, nothing.
Rename(disk, src, dst) ==
  IF src = dst THEN disk ELSE [disk EXCEPT ![dst] = disk[src], ![src] = NoFile]

\* --------------------------------------------------------------------------
\* State
\* --------------------------------------------------------------------------

VARIABLES
  args,       \* the parsed command line: interval, skip_extract, ignore_malformed
  seen,       \* seen_eng and seen_trans, by stream kind
  backoff,    \* the scheduler's backoff, seconds
  cur,        \* index in Streams of the stream the for loop is at
  name,       \* the local name of l.126 while its stream's step runs
  fs,         \* the archives tree: path -> file
  pc,         \* position of the process in run()
  status,     \* exit status, Running until the process exits
  ev,         \* the last step: what it did (the log line it wrote, where it
              \* logs), the name it resolved, the backoff it started from
  completed,  \* by stream kind, the names whose download completed in this process
  clean,      \* no cycle of this process has failed since its last clean cycle
  cycle       \* the pass of the while loop under way: whether a download or
              \* an extraction failed in it, and the streams whose seen set
              \* it added a name to

vars == << args, seen, backoff, cur, name, fs, pc, status, ev, completed, clean,
           cycle >>

Stream == Streams[cur]

Kind == Stream.kind

ArgSets == [interval : Intervals, skip_extract : BOOLEAN, ignore_malformed : BOOLEAN]

Min(a, b) == IF a <= b THEN a ELSE b

Ev(what, n) == [what |-> what, name |-> n, old |-> backoff]

\* The top of the while loop (l.111): a pass in which nothing happened yet.
NewCycle == [failed |-> FALSE, added |-> {}]

\* run() up to the first poll (l.98-111), on an empty output tree.
Init ==
  /\ args \in ArgSets
  /\ seen = [k \in Kinds |-> {}]
  /\ backoff = args.interval
  /\ cur = 1
  /\ name = NoName
  /\ fs = [p \in AllPaths |-> NoFile]
  /\ pc = "poll"
  /\ status = Running
  /\ ev = Ev("started", NoName)
  /\ completed = [k \in Kinds |-> {}]
  /\ clean = TRUE
  /\ cycle = NewCycle

\* continue, or the end of the loop body: the next stream, or after the last
\* one the sleep of l.154.
Advance ==
  /\ name' = NoName
  /\ IF cur < Len(Streams)
       THEN cur' = cur + 1 /\ pc' = "poll"
       ELSE cur' = cur /\ pc' = "sleep"

\* Fault: extraction is skipped whatever --skip-extract says.
AfterArchiveNoExtract == "mark"

\* Fault: extraction is attempted whatever --skip-extract says.
AfterArchiveAlwaysExtract == "extract"

\* Where l.143-144 lead once the archive is on disk.
AfterArchive == IF args.skip_extract THEN "mark" ELSE "extract"

\* The process ends with the given status; its memory is gone, the tree stays.
Exit(st) ==
  /\ pc' = "exited"
  /\ status' = st
  /\ seen' = [k \in Kinds |-> {}]
  /\ completed' = [k \in Kinds |-> {}]
  /\ backoff' = args.interval
  /\ clean' = TRUE
  /\ cycle' = NewCycle
  /\ cur' = 1
  /\ name' = NoName
  /\ UNCHANGED << args, fs >>

\* The catch-all handler (l.163-167) up to its sleep.
Unhandled ==
  IF args.ignore_malformed
    THEN /\ pc' = "tolerated_sleep"
         /\ name' = NoName
         /\ UNCHANGED << args, seen, backoff, cur, fs, status, completed, clean, cycle >>
    ELSE Exit(ExitFatal)

\* --------------------------------------------------------------------------
\* One stream's step (l.117-152)
\* --------------------------------------------------------------------------

\* poll_once raises RequestException (transport failure or non-2xx): out of
\* the for loop to the handler of l.156.
PollRequestError ==
  /\ pc' = "backoff_sleep"
  /\ ev' = Ev("pointer_failed", NoName)
  /\ UNCHANGED << args, seen, backoff, cur, name, fs, status, completed, clean, cycle >>

\* Fault: without --ignore-malformed a body with no link ends the process.
PollMalformedFatal(body) ==
  /\ poll_once(body) = NoLink
  /\ ev' = Ev("malformed", NoName)
  /\ IF args.ignore_malformed
       THEN Advance /\ UNCHANGED << args, seen, backoff, fs, status, completed, clean, cycle >>
       ELSE Exit(ExitFatal)

\* l.120-125: no link in the body.
PollMalformed(body) ==
  /\ poll_once(body) = NoLink
  /\ ev' = Ev("malformed", NoName)
  /\ Advance
  /\ UNCHANGED << args, seen, backoff, fs, status, completed, clean, cycle >>

\* Fault: the membership test of l.127 never holds.
NeverProcessed(s, n) == FALSE

\* l.127: name in seen.
AlreadyProcessed(s, n) == n \in s

\* Fault: the download branch is taken whatever seen and the tree hold.
ToDownloadAlways(s, disk, stream, n) == TRUE

\* l.127-134: the download branch is taken for a name that is not in seen
\* and whose zip_path does not exist.
ToDownload(s, disk, stream, n) ==
  ~AlreadyProcessed(s, n) /\ ~Exists(disk, ZipPath(stream, n))

\* l.126-128: the name is in seen.
PollSeen(body) ==
  LET n == safe_filename(poll_once(body)) IN
  /\ poll_once(body) # NoLink
  /\ AlreadyProcessed(seen[Kind], n)
  /\ ev' = Ev("already_seen", n)
  /\ Advance
  /\ UNCHANGED << args, seen, backoff, fs, status, completed, clean, cycle >>

\* l.130-133: a new name whose archive is on disk.
PollOnDisk(body) ==
  LET n == safe_filename(poll_once(body)) IN
  /\ poll_once(body) # NoLink
  /\ ~AlreadyProcessed(seen[Kind], n)
  /\ Exists(fs, ZipPath(Stream, n))
  /\ name' = n
  /\ ev' = Ev("on_disk", n)
  /\ pc' = AfterArchive
  /\ UNCHANGED << args, seen, backoff, cur, fs, status, completed, clean, cycle >>

\* l.130-135: a new name with no archive on disk.
PollNew(body) ==
  LET n == safe_filename(poll_once(body)) IN
  /\ poll_once(body) # NoLink
  /\ ToDownload(seen[Kind], fs, Stream, n)
  /\ name' = n
  /\ ev' = Ev("downloading", n)
  /\ pc' = "download"
  /\ UNCHANGED << args, seen, backoff, cur, fs, status, completed, clean, cycle >>

\* l.132: zip_path.exists() raises OSError (say EACCES on the output tree),
\* which only the catch-all of l.163 handles.
PollStatError(body) ==
  LET n == safe_filename(poll_once(body)) IN
  /\ poll_once(body) # NoLink
  /\ ~AlreadyProcessed(seen[Kind], n)
  /\ ev' = Ev("unhandled", n)
  /\ Unhandled

Poll ==
  /\ pc = "poll"
  /\ \/ PollRequestError
     \/ \E body \in PointerBodies(Stream.url) :
          \/ PollMalformed(body)
          \/ PollSeen(body)
          \/ PollOnDisk(body)
          \/ PollNew(body)
          \/ PollStatError(body)

\* dest and tmp of download_zip for the stream and name at hand.
Dest == ZipPath(Stream, name)

Tmp == PartPath(Dest)

\* Fault: no try around download_zip; its exception leaves the for loop for
\* the handler of l.156.
DownloadFailedPropagates ==
  /\ ev' = Ev("download_failed", name)
  /\ cycle' = [cycle EXCEPT !.failed = TRUE]
  /\ pc' = "backoff_sleep"
  /\ UNCHANGED << args, seen, backoff, cur, name, fs, status, completed, clean >>

\* l.139-141: any Exception out of download_zip is logged and the stream left
\* for the next poll.
DownloadFailed ==
  /\ ev' = Ev("download_failed", name)
  /\ cycle' = [cycle EXCEPT !.failed = TRUE]
  /\ Advance
  /\ UNCHANGED << args, seen, backoff, fs, status, completed, clean >>

\* download_zip, l.58-62: the GET; a failure of it or of raise_for_status
\* leaves the tree alone, a 2xx response opens tmp for writing (truncating it).
DownloadGet ==
  /\ pc = "download"
  /\ \/ DownloadFailed
     \/ \E valid \in BOOLEAN :
          /\ fs' = [fs EXCEPT ![Tmp] = [written |-> 0, valid |-> valid]]
          /\ pc' = "write"
          /\ ev' = Ev("receiving", name)
          /\ UNCHANGED << args, seen, backoff, cur, name, status, completed, clean, cycle >>

\* download_zip, l.63-65: one more chunk of the body written to tmp, or the
\* transfer breaks and what was written stays in tmp.
WriteChunk ==
  /\ pc = "write"
  /\ \/ /\ ~Complete(fs[Tmp])
        /\ fs' = [fs EXCEPT ![Tmp].written = @ + 1]
        /\ ev' = Ev("receiving", name)
        /\ UNCHANGED << args, seen, backoff, cur, name, pc, status, completed, clean, cycle >>
     \/ DownloadFailed

\* Fault: download_zip returns without renaming tmp to dest.
RenameIntoPlaceMissing ==
  /\ pc = "write"
  /\ Complete(fs[Tmp])
  /\ completed' = [completed EXCEPT ![Kind] = @ \cup {name}]
  /\ ev' = Ev("downloaded", name)
  /\ pc' = AfterArchive
  /\ UNCHANGED << args, seen, backoff, cur, name, fs, status, clean, cycle >>

\* download_zip, l.66-67, and l.138: the body is written, tmp is renamed to
\* dest.
RenameIntoPlace ==
  /\ pc = "write"
  /\ Complete(fs[Tmp])
  /\ fs' = Rename(fs, Tmp, Dest)
  /\ completed' = [completed EXCEPT ![Kind] = @ \cup {name}]
  /\ ev' = Ev("downloaded", name)
  /\ pc' = AfterArchive
  /\ UNCHANGED << args, seen, backoff, cur, name, status, clean, cycle >>

\* Fault: a failed extraction leaves the name for the next poll (continue).
ExtractFailureContinues ==
  /\ pc = "extract"
  /\ IF IsZip(fs[Dest])
       THEN ev' = Ev("extracted", name) /\ pc' = "mark" /\ UNCHANGED << cur, name >>
       ELSE ev' = Ev("extract_failed", name) /\ Advance
  /\ cycle' = [cycle EXCEPT !.failed = @ \/ ~IsZip(fs[Dest])]
  /\ UNCHANGED << args, seen, backoff, fs, status, completed, clean >>

\* Fault: no try around extract_zip; BadZipFile leaves the for loop for the
\* handler of l.156.
ExtractFailurePropagates ==
  /\ pc = "extract"
  /\ ev' = Ev(IF IsZip(fs[Dest]) THEN "extracted" ELSE "extract_failed", name)
  /\ cycle' = [cycle EXCEPT !.failed = @ \/ ~IsZip(fs[Dest])]
  /\ pc' = IF IsZip(fs[Dest]) THEN "mark" ELSE "backoff_sleep"
  /\ UNCHANGED << args, seen, backoff, cur, name, fs, status, completed, clean >>

\* l.144-150: extract_zip; BadZipFile (or a missing archive) is logged and
\* nothing else.
Extract ==
  /\ pc = "extract"
  /\ ev' = Ev(IF IsZip(fs[Dest]) THEN "extracted" ELSE "extract_failed", name)
  /\ cycle' = [cycle EXCEPT !.failed = @ \/ ~IsZip(fs[Dest])]
  /\ pc' = "mark"
  /\ UNCHANGED << args, seen, backoff, cur, name, fs, status, completed, clean >>

\* Fault: one seen set for all streams.
MarkShared ==
  /\ pc = "mark"
  /\ seen' = [k \in Kinds |-> seen[k] \cup {name}]
  /\ ev' = Ev("marked", name)
  /\ cycle' = [cycle EXCEPT !.added = @ \cup {Kind}]
  /\ Advance
  /\ UNCHANGED << args, backoff, fs, status, completed, clean >>

\* l.152: seen.add(name), the end of the loop body.
Mark ==
  /\ pc = "mark"
  /\ seen' = [seen EXCEPT ![Kind] = @ \cup {name}]
  /\ ev' = Ev("marked", name)
  /\ cycle' = [cycle EXCEPT !.added = @ \cup {Kind}]
  /\ Advance
  /\ UNCHANGED << args, backoff, fs, status, completed, clean >>

\* --------------------------------------------------------------------------
\* The scheduler (l.111, l.154-167)
\* --------------------------------------------------------------------------

\* l.159.
NextBackoff(b) == Min(b * 2, BackoffCap)

\* Fault: no reset after a clean cycle.
ResetBackoffMissing(interval) == backoff

\* l.155.
ResetBackoff(interval) == interval

\* l.154-155: the sleep after a cycle through all streams, the reset, and
\* back to the top of the while loop.
Sleep ==
  /\ pc = "sleep"
  /\ backoff' = ResetBackoff(args.interval)
  /\ clean' = TRUE
  /\ cycle' = NewCycle
  /\ cur' = 1
  /\ pc' = "poll"
  /\ ev' = Ev("cycle_ok", NoName)
  /\ UNCHANGED << args, seen, name, fs, status, completed >>

\* l.158-159: the sleep of backoff seconds ends, backoff doubles up to the cap.
BackoffSleep ==
  /\ pc = "backoff_sleep"
  /\ backoff' = NextBackoff(backoff)
  /\ clean' = FALSE
  /\ cycle' = NewCycle
  /\ cur' = 1
  /\ pc' = "poll"
  /\ ev' = Ev("backed_off", NoName)
  /\ UNCHANGED << args, seen, name, fs, status, completed >>

\* l.167: the sleep of backoff seconds of the catch-all ends.
ToleratedSleep ==
  /\ pc = "tolerated_sleep"
  /\ clean' = FALSE
  /\ cycle' = NewCycle
  /\ cur' = 1
  /\ pc' = "poll"
  /\ ev' = Ev("tolerated", NoName)
  /\ UNCHANGED << args, seen, backoff, name, fs, status, completed >>

\* Positions inside the try block of l.112-155.
InTry == {"poll", "download", "write", "extract", "mark", "sleep"}

\* KeyboardInterrupt.  Raised inside the try block it reaches l.160-162 and
\* sys.exit(0); raised in the sleep of a handler (l.158, l.167) no clause of
\* the same try statement catches it and the interpreter ends the process.
Interrupt ==
  /\ pc # "exited"
  /\ ev' = Ev("interrupted", name)
  /\ IF pc \in InTry
       THEN Exit(ExitOk)
       ELSE \E st \in UncaughtInterruptStatuses : Exit(st)

\* The program is started again with the same command line on the tree the
\* last process left.
Restart ==
  /\ pc = "exited"
  /\ pc' = "poll"
  /\ status' = Running
  /\ ev' = Ev("started", NoName)
  /\ UNCHANGED << args, seen, backoff, cur, name, fs, completed, clean, cycle >>

Next ==
  \/ Poll
  \/ DownloadGet
  \/ WriteChunk
  \/ RenameIntoPlace
  \/ Extract
  \/ Mark
  \/ Sleep
  \/ BackoffSleep
  \/ ToleratedSleep
  \/ Interrupt
  \/ Restart

Spec == Init /\ [][Next]_vars

\* --------------------------------------------------------------------------
\* One process that is never interrupted, on a network that lets TRANS's
\* pointer fetch and every transfer succeed again and again
\* --------------------------------------------------------------------------

\* l.119-135 on an output tree that can be read: zip_path.exists() answers.
PollLive ==
  /\ pc = "poll"
  /\ \/ PollRequestError
     \/ \E body \in PointerBodies(Stream.url) :
          \/ PollMalformed(body)
          \/ PollSeen(body)
          \/ PollOnDisk(body)
          \/ PollNew(body)

\* The steps of run() itself: no KeyboardInterrupt, no exception of an
\* unrecognized class, no second process.
NextLive ==
  \/ PollLive
  \/ DownloadGet
  \/ WriteChunk
  \/ RenameIntoPlace
  \/ Extract
  \/ Mark
  \/ Sleep
  \/ BackoffSleep

\* poll_once for the stream of kind k returns a link and the step goes on
\* with its name (l.119-133).
PollResolves(k) ==
  /\ PollLive
  /\ Kind = k
  /\ ev'.what \in {"already_seen", "on_disk", "downloading"}

\* download_zip, l.58-62: the GET answers 2xx.
TransferStarts == DownloadGet /\ pc' = "write"

\* download_zip, l.63-65: chunk number i + 1 of the body arrives.
ChunkWritten(i) == WriteChunk /\ fs[Tmp].written = i /\ pc' = "write"

\* The loop of l.111 never stops by itself (weak fairness of its steps);
\* TRANS's pointer fetch, the GET of an archive, each chunk of its body and
\* the rename succeed again and again when tried again and again (strong
\* fairness).  Nothing is assumed of ENG's pointer fetch.
Fairness ==
  /\ WF_vars(NextLive)
  /\ SF_vars(PollResolves("TRANS"))
  /\ SF_vars(TransferStarts)
  /\ \A i \in 0..(BodyChunks - 1) : SF_vars(ChunkWritten(i))
  /\ SF_vars(RenameIntoPlace)

SpecLive == Init /\ [][NextLive]_vars /\ Fairness

Positions == InTry \cup {"backoff_sleep", "tolerated_sleep", "exited"}

TypeOK ==
  /\ args \in ArgSets
  /\ seen \in [Kinds -> SUBSET Names]
  /\ backoff \in Nat
  /\ cur \in 1..Len(Streams)
  /\ name \in Names \cup {NoName}
  /\ fs \in [AllPaths -> Files]
  /\ pc \in Positions
  /\ status \in {Running, ExitOk, ExitFatal} \cup UncaughtInterruptStatuses
  /\ completed \in [Kinds -> SUBSET Names]
  /\ clean \in BOOLEAN
  /\ cycle \in [failed : BOOLEAN, added : SUBSET Kinds]

\* --------------------------------------------------------------------------
\* Properties
\* --------------------------------------------------------------------------

ZipPaths == {ZipPath(Streams[i], n) : i \in 1..Len(Streams), n \in Names}

Present(path) == fs[path] # NoFile

\* The outcomes of a poll in which the pointer resolved to a name (ev.name).
ResolvedEvents == {"already_seen", "on_disk", "downloading", "unhandled"}

\* The sleeps of the two exception handlers (l.158, l.167).
HandlerSleeps == {"backoff_sleep", "tolerated_sleep"}

\* The end of a stream's step: the next stream, or the sleep after the last.
StepEnds ==
  IF cur < Len(Streams) THEN pc' = "poll" /\ cur' = cur + 1 ELSE pc' = "sleep"

\* C1: for each stream, the download of a name completes (the rename of l.66)
\* at most once in a process: a download never completes for a name whose
\* download already completed in this process.
C1_AtMostOneDownload ==
  [][(pc = "write" /\ ev'.what = "downloaded") => name \notin completed[Kind]]_vars

\* TRANS's pointer resolves again to the name downloaded earlier in this
\* process, and the step ends there.
C1_Witness ==
  /\ pc = "sleep"
  /\ ev.what = "already_seen"
  /\ ev.name = NameT
  /\ NameT \in completed["TRANS"]

\* C2: while a transfer is requested or under way (l.137) the archive of the
\* name at hand is not on disk at its zip_path: no GET is issued for an
\* archive that is there, whatever seen holds.
C2_NoTransferWhenOnDisk ==
  pc \in {"download", "write"} => fs[Dest] = NoFile

\* A stream with nothing seen and nothing downloaded in this process finds the
\* archive of the resolved name on disk and goes on without a download.
C2_Witness ==
  /\ ev.what = "on_disk"
  /\ pc \in {"extract", "mark"}
  /\ seen[Kind] = {}
  /\ completed[Kind] = {}
  /\ Present(Dest)

\* C3: a poll that resolves to a name in the stream's seen set ends the
\* stream's step at once with the tree, the seen sets and the downloads as
\* they were; and no download, extraction or marking is ever under way for a
\* name in seen.
C3_SeenMeansNoIO ==
  /\ [](pc \in {"download", "write", "extract", "mark"} => name \notin seen[Kind])
  /\ [][(pc = "poll" /\ ev'.what \in ResolvedEvents /\ ev'.name \in seen[Kind])
          => /\ ev'.what = "already_seen"
             /\ StepEnds
             /\ fs' = fs /\ seen' = seen /\ completed' = completed]_vars

\* TRANS's pointer resolves to a seen name whose archive is no zip archive:
\* with extraction on, its extraction failed before it was marked.
C3_Witness ==
  /\ ev.what = "already_seen"
  /\ ev.name = NameT
  /\ pc = "sleep"
  /\ ~args.skip_extract
  /\ Present(ZipPath(Streams[2], NameT))
  /\ ~IsZip(fs[ZipPath(Streams[2], NameT)])

\* C4: every archive path is absent or holds a whole body; only .part paths
\* hold less.
C4_DestNeverPartial ==
  \A p \in ZipPaths : fs[p] = NoFile \/ fs[p].written = BodyChunks

\* A download interrupted after its first chunk: the .part file holds a
\* started body and the archive path is absent.
C4_Witness ==
  /\ pc = "exited"
  /\ ev.what = "interrupted"
  /\ \E i \in 1..Len(Streams) :
       LET p == ZipPath(Streams[i], ev.name) IN
       /\ ev.name \in Names
       /\ fs[p] = NoFile
       /\ fs[PartPath(p)] # NoFile
       /\ fs[PartPath(p)].written > 0
       /\ fs[PartPath(p)].written < BodyChunks

\* C5: while the process runs, seen changes only by the step at l.152, which
\* adds the name at hand to the stream at hand, with the archive on disk and,
\* unless --skip-extract, right after an extraction attempt for that name
\* (with --skip-extract, right after the download or the existence check).
C5_SeenOnlyAfterProcessing ==
  [][(seen' # seen /\ pc' # "exited")
       => /\ pc = "mark"
          /\ seen' = [seen EXCEPT ![Kind] = @ \cup {name}]
          /\ StepEnds
          /\ fs[Dest] # NoFile
          /\ ev.name = name
          /\ IF args.skip_extract
               THEN ev.what \in {"downloaded", "on_disk"}
               ELSE ev.what \in {"extracted", "extract_failed"}]_vars

\* TRANS's name has just been marked, with extraction on.
C5_Witness ==
  /\ ev.what = "marked"
  /\ ev.name = NameT
  /\ NameT \in seen["TRANS"]
  /\ ~args.skip_extract
  /\ pc = "sleep"

\* C6: a failed download changes neither seen, the backoff nor the tree, the
\* archive path stays absent, no extraction follows and the step ends (next
\* stream, or the cycle's sleep); and a poll that resolves to a name not in
\* seen and not on disk starts its download, unless the existence check
\* itself raises.
C6_DownloadFailure ==
  [][/\ ev'.what = "download_failed"
          => /\ seen' = seen /\ backoff' = backoff /\ fs' = fs
             /\ completed' = completed
             /\ fs[Dest] = NoFile
             /\ StepEnds
     /\ (pc = "poll" /\ ev'.what \in ResolvedEvents
           /\ ev'.name \notin seen[Kind] /\ fs[ZipPath(Stream, ev'.name)] = NoFile)
          => \/ ev'.what = "downloading" /\ pc' = "download" /\ name' = ev'.name
             \/ ev'.what = "unhandled"]_vars

\* ENG's download has just failed leaving a .part file: the name is not in
\* seen, there is no archive, and TRANS is about to be polled.
C6_Witness ==
  /\ ev.what = "download_failed"
  /\ ev.name \in Published(ENG_URL)
  /\ pc = "poll" /\ cur = 2
  /\ ev.name \notin seen["ENG"]
  /\ fs[ZipPath(Streams[1], ev.name)] = NoFile
  /\ fs[PartPath(ZipPath(Streams[1], ev.name))] # NoFile

\* C7: a failed extraction leads to l.152 with the tree as it was, the step
\* at l.152 adds the name with the archive still on disk, and no extraction
\* is ever under way for a name in seen.
C7_ExtractFailureStillMarks ==
  /\ [](pc = "extract" => name \notin seen[Kind])
  /\ [][/\ ev'.what = "extract_failed"
             => pc' = "mark" /\ name' = name /\ cur' = cur /\ fs' = fs
        /\ (pc = "mark" /\ ev.what = "extract_failed" /\ pc' # "exited")
             => /\ seen' = [seen EXCEPT ![Kind] = @ \cup {name}]
                /\ fs' = fs
                /\ fs[Dest] # NoFile]_vars

\* ENG's name has just been marked although its archive, complete on disk, is
\* no zip archive.
C7_Witness ==
  /\ ev.what = "marked"
  /\ ~args.skip_extract
  /\ pc = "poll" /\ cur = 2
  /\ ev.name \in seen["ENG"]
  /\ Complete(fs[ZipPath(Streams[1], ev.name)])
  /\ ~fs[ZipPath(Streams[1], ev.name)].valid

\* C8: a failed pointer fetch ends only that stream's step, with no state
\* change: the next stream is polled in the same cycle.
C8_PointerFailureContinues ==
  [][(pc = "poll" /\ ev'.what = "pointer_failed")
       => /\ StepEnds
          /\ seen' = seen /\ backoff' = backoff /\ fs' = fs]_vars

\* C9: the stored backoff never exceeds the cap, nor does the time slept
\* after a failure; a retryable failure doubles the backoff up to the cap,
\* never lowering it.
C9_BackoffCapped ==
  /\ [](backoff <= BackoffCap)
  /\ [][(pc = "backoff_sleep" /\ pc' = "poll")
          => /\ ev'.old <= BackoffCap
             /\ backoff' = Min(2 * backoff, BackoffCap)
             /\ backoff' >= backoff]_vars

\* C10: the sleep after a cycle through all streams sets the backoff to the
\* interval; a backoff above the interval is not lowered by anything else
\* while the process runs; and a failure with no failed cycle since the last
\* clean cycle sleeps exactly the interval.
C10_ResetAfterCleanCycle ==
  /\ []((pc \in {"backoff_sleep", "tolerated_sleep"} /\ clean) => backoff = args.interval)
  /\ [][/\ (pc = "sleep" /\ pc' = "poll") => backoff' = args.interval
        /\ (backoff > args.interval /\ pc # "sleep" /\ pc' # "exited")
             => backoff' >= backoff]_vars

\* A clean cycle has just reset a backoff that failures had raised.
C10_Witness ==
  /\ ev.what = "cycle_ok"
  /\ ev.old > args.interval
  /\ backoff = args.interval
  /\ clean

\* C11: an interrupt, wherever the process is, ends it with status 0.
C11_InterruptExitsZero ==
  (pc = "exited" /\ ev.what = "interrupted") => status = ExitOk

\* C12: the process ends only on an interrupt, with status 0, or on an
\* exception of no recognized class while --ignore-malformed is off, with a
\* status other than 0.
C12_OnlyTwoExits ==
  pc = "exited"
    => \/ ev.what = "interrupted" /\ status = ExitOk
       \/ ev.what = "unhandled" /\ ~args.ignore_malformed /\ status # ExitOk

\* C13: a pointer body with no matching line ends the stream's step and the
\* process runs on when --ignore-malformed is set, and ends the process with
\* a failure status when it is not.
C13_MalformedPerFlag ==
  [][(pc = "poll" /\ ev'.what = "malformed")
       => IF args.ignore_malformed
            THEN StepEnds /\ status' = Running
            ELSE pc' = "exited" /\ status' # ExitOk]_vars

\* C14: the sleep of the catch-all handler is followed by the same doubling
\* of the backoff, up to the cap, as the sleep of the retryable handler.
C14_ToleratedBacksOffAlike ==
  [][(pc = "tolerated_sleep" /\ pc' = "poll")
       => backoff' = Min(2 * backoff, BackoffCap)]_vars

C19_OnlyTheScheduler ==
  [][(backoff' # backoff /\ pc' # "exited")
       => \/ /\ pc = "backoff_sleep" /\ ev.what = "pointer_failed"
             /\ backoff' = Min(2 * backoff, BackoffCap)
          \/ pc = "sleep" /\ backoff' = args.interval]_vars

\* A failed download or extraction stays inside the stream's step: the
\* backoff is as it was, no handler sleeps and the process runs on, with the
\* next stream (or the cycle's sleep) after a failed download and with the
\* marking of the name after a failed extraction.
C19_FailuresStayInStep ==
  [][ev'.what \in {"download_failed", "extract_failed"}
       => /\ backoff' = backoff
          /\ pc' \notin HandlerSleeps \cup {"exited"}
          /\ ev'.what = "download_failed" => StepEnds
          /\ ev'.what = "extract_failed" => pc' = "mark"]_vars

\* The sleep after a pass through all streams ends, unless interrupted, with
\* the backoff at the interval and a new cycle.
C19_NormalSleepResets ==
  [][(pc = "sleep" /\ pc' # "exited")
       => backoff' = args.interval /\ pc' = "poll" /\ cur' = 1]_vars

\* C19 as stated: the backoff changes only in the scheduler's two steps;
\* a failed download or extraction causes no backoff sleep and no doubling;
\* and every cycle with such a failure in it ends in the sleep of l.154 and
\* the reset.
C19_FailedCycleEndsNormally ==
  /\ C19_OnlyTheScheduler
  /\ C19_FailuresStayInStep
  /\ C19_NormalSleepResets
  /\ [](cycle.failed /\ pc \in HandlerSleeps \cup {"sleep"} => pc = "sleep")

\* C19, amended: the backoff changes only in the scheduler's two steps; a
\* failed download or extraction causes no backoff sleep and no doubling and
\* the cycle goes on after it; a cycle with such a failure in it ends in the
\* sleep of l.154 and the reset unless a pointer fetch later in the cycle
\* fails or an exception of no recognized class is raised, which alone lead
\* to the handlers' sleeps.
C19_BackoffOnlyByScheduler ==
  /\ C19_OnlyTheScheduler
  /\ C19_FailuresStayInStep
  /\ C19_NormalSleepResets
  /\ [][pc' = "backoff_sleep" => pc = "poll" /\ ev'.what = "pointer_failed"]_vars
  /\ [][pc' = "tolerated_sleep" => pc = "poll" /\ ev'.what = "unhandled"]_vars
  /\ [](cycle.failed /\ pc \in HandlerSleeps \cup {"sleep"}
          => \/ pc = "sleep"
             \/ pc = "backoff_sleep" /\ ev.what = "pointer_failed"
             \/ pc = "tolerated_sleep" /\ ev.what = "unhandled")

\* A cycle that started with a raised backoff had a download or an extraction
\* fail in it, ran through all streams and is in the sleep of l.154.
C19_Witness ==
  /\ pc = "sleep"
  /\ cycle.failed
  /\ backoff # args.interval

\* C20: while the process runs a stream's seen set only grows; it changes
\* only at l.152 of that stream's own step, by one name, and not twice in a
\* cycle; and the steps that abort a cycle and end the handlers' sleeps leave
\* both sets as they are.
C20_SeenOnlyGrows ==
  /\ [][pc' # "exited"
          => \A k \in Kinds :
               /\ seen[k] \subseteq seen'[k]
               /\ seen'[k] # seen[k]
                    => /\ pc = "mark" /\ k = Kind
                       /\ Cardinality(seen'[k] \ seen[k]) = 1
                       /\ k \notin cycle.added]_vars
  /\ [][(pc' \in HandlerSleeps \/ pc \in HandlerSleeps) /\ pc' # "exited"
          => seen' = seen]_vars
  /\ [](\A k \in cycle.added : seen[k] # {})

\* ENG's step added a name to seen_eng, then the fetch of TRANS's pointer
\* failed: the cycle is aborted and the name is still in seen_eng.
C20_Witness ==
  /\ pc = "backoff_sleep"
  /\ cur = 2
  /\ "ENG" \in cycle.added
  /\ ev.what = "pointer_failed"
  /\ seen["ENG"] # {}

\* The events at which a stream's step ends and the for loop goes on.
StepEndEvents == {"malformed", "already_seen", "download_failed", "marked"}

\* C16: within a stream's step the download starts only from the pointer
\* fetch; extraction starts only once the archive is on disk at zip_path,
\* found there by the poll or renamed into place by the download; the name is
\* added to seen only after the extraction of that name has ended, well or
\* not, unless --skip-extract is set, and the addition ends the step.  Across
\* streams every cycle starts with ENG, TRANS is polled only once ENG's step
\* has ended, and only the end of a cycle (or of the process) leads back to
\* ENG.
C16_StepOrder ==
  /\ [][pc' = "download" => pc = "poll" /\ ev'.what = "downloading"]_vars
  /\ [][(pc' = "extract" /\ pc # "extract")
          => /\ \/ pc = "poll" /\ ev'.what = "on_disk"
                \/ pc = "write" /\ ev'.what = "downloaded" /\ Complete(fs[Tmp])
             /\ cur' = cur
             /\ fs'[ZipPath(Stream, name')] # NoFile]_vars
  /\ [](pc = "extract" => Present(Dest))
  /\ [][(pc' = "mark" /\ ~args.skip_extract)
          => /\ pc = "extract"
             /\ ev'.what \in {"extracted", "extract_failed"}
             /\ ev'.name = name /\ name' = name /\ cur' = cur]_vars
  /\ [][(seen' # seen /\ pc' # "exited")
          => /\ pc = "mark" /\ StepEnds
             /\ args.skip_extract \/ ev.what \in {"extracted", "extract_failed"}]_vars
  /\ [][cur' # cur
          => \/ /\ cur = 1 /\ cur' = 2
                /\ pc' = "poll" /\ name' = NoName
                /\ ev'.what \in StepEndEvents
             \/ /\ cur = 2 /\ cur' = 1
                /\ pc \in HandlerSleeps \cup {"sleep"} \/ pc' = "exited"]_vars
  /\ [][(pc \in HandlerSleeps \cup {"sleep", "exited"} /\ pc' = "poll")
          => cur' = 1]_vars
  /\ [](pc \in {"download", "write", "extract", "mark"} => name # NoName)

\* A cycle in which both streams, ENG first, went through download,
\* extraction and marking, at the sleep of l.154.
C16_Witness ==
  /\ pc = "sleep"
  /\ ~args.skip_extract
  /\ ev.what = "marked" /\ ev.name = NameT
  /\ cycle.added = Kinds
  /\ completed["ENG"] # {}
  /\ NameT \in completed["TRANS"]

\* C18: with --skip-extract no extraction is ever under way or reported, the
\* step goes from the completed download, or from the archive found on disk,
\* straight to l.152, and the step after that (unless the process is
\* interrupted there) adds the name to the stream's seen set.
C18_SkipExtract ==
  /\ [](args.skip_extract
          => pc # "extract" /\ ev.what \notin {"extracted", "extract_failed"})
  /\ [][(args.skip_extract /\ ev'.what \in {"on_disk", "downloaded"})
          => pc' = "mark" /\ name' = ev'.name /\ seen' = seen]_vars
  /\ [][(args.skip_extract /\ pc = "mark" /\ pc' # "exited")
          => /\ ev.what \in {"on_disk", "downloaded"}
             /\ ev.name = name
             /\ seen' = [seen EXCEPT ![Kind] = @ \cup {name}]
             /\ fs' = fs]_vars

\* With --skip-extract, a cycle marked a name for both streams: ENG's after
\* its download in this process, TRANS's after finding the archive that an
\* earlier process left on disk.
C18_Witness ==
  /\ args.skip_extract
  /\ pc = "sleep"
  /\ ev.what = "marked" /\ ev.name = NameT
  /\ cycle.added = Kinds
  /\ completed["ENG"] # {}
  /\ completed["TRANS"] = {}
  /\ NameT \in seen["TRANS"]

\* C17, for TRANS: in a process that is not interrupted, with TRANS's pointer
\* fetch and the transfers succeeding again and again, the name TRANS's
\* pointer keeps referencing is eventually in seen_trans with its archive on
\* disk, whatever ENG's pointer fetch does.
C17_TransEventuallySeen ==
  <>(NameT \in seen["TRANS"] /\ Present(ZipPath(Streams[2], NameT)))

=============================================================================
